---- MODULE Spec2Model ----
(***************************************************************************)
(* southwark/repo.py: get_user_identity and Repo.do_commit.                *)
(*                                                                         *)
(* Python str values are sequences of code points, bytes values are        *)
(* sequences of 0..255.  An Optional value is a record [some, v]: None is  *)
(* [some |-> FALSE, ...].  The ambient collaborators (os.environ, the      *)
(* config stack, dulwich's host-default provider, the base do_commit) are  *)
(* state the functions only read or call.                                  *)
(***************************************************************************)
EXTENDS Integers, Sequences, FiniteSets, TLC

VARIABLES
    env,            \* os.environ (lines 81, 84): variable name -> Optional[str]
    config,         \* the config (lines 90, 96): (section, name) -> outcome of config.get
    host,           \* repo._get_default_identity() (line 101): [ok, name, email]
    pc,             \* position of the running call ("idle": none running)
    caller,         \* who called get_user_identity: "top", "dc_committer", "dc_author"
    kind,           \* get_user_identity's argument `kind`
    user,           \* get_user_identity's local `user`
    email,          \* get_user_identity's local `email`
    srcEmail,       \* the value of `email` when line 108 was reached
    hostCalls,      \* calls of repo._get_default_identity() made by the current call
    reads,          \* what the current get_user_identity call has consulted
    ret,            \* outcome of the last finished get_user_identity call
    first,          \* <<[k, r, again]>>: kind and outcome of the first finished top-level
                    \* call, and whether a later call of that kind has finished; or <<>>
    args,           \* do_commit's arguments as the caller gave them
    committer,      \* do_commit's local `committer`
    author,         \* do_commit's local `author`
    resolvedKinds,  \* the kinds do_commit has called get_user_identity with
    superArgs,      \* <<arguments handed to super().do_commit>>, or <<>>
    superRet,       \* outcome of super().do_commit
    dcRet           \* outcome of the last finished do_commit call

world == <<env, config, host>>
dcVars == <<args, committer, author, resolvedKinds, superArgs, superRet, dcRet>>
vars == <<env, config, host, pc, caller, kind, user, email, srcEmail, hostCalls,
          reads, ret, first, args, committer, author, resolvedKinds, superArgs,
          superRet, dcRet>>

-----------------------------------------------------------------------------
(* Values *)

\* Largest number of '<' put before, and of '>' put after, a sample email.
MaxWrap == 2

LT == 60
GT == 62
SP == 32

None == [some |-> FALSE, v |-> <<>>]
Some(x) == [some |-> TRUE, v |-> x]
NoKind == [some |-> FALSE, v |-> ""]
SomeKind(k) == [some |-> TRUE, v |-> k]

Kinds == {NoKind, SomeKind("AUTHOR"), SomeKind("COMMITTER")}

NoOutcome == [st |-> "none", v |-> <<>>, exc |-> ""]
Return(b) == [st |-> "return", v |-> b, exc |-> ""]
Raise(e) == [st |-> "raise", v |-> <<>>, exc |-> e]

RECURSIVE Repeat(_, _)
Repeat(c, n) == IF n = 0 THEN <<>> ELSE <<c>> \o Repeat(c, n - 1)

\* k times '<', then core, then m times '>'
Wrap(k, core, m) == Repeat(LT, k) \o core \o Repeat(GT, m)

-----------------------------------------------------------------------------
(* Pure helpers of get_user_identity *)

\* str.encode('utf-8') of one code point
EncodeChar(c) ==
    IF c < 128 THEN <<c>>
    ELSE IF c < 2048 THEN <<192 + (c \div 64), 128 + (c % 64)>>
    ELSE <<224 + (c \div 4096), 128 + ((c \div 64) % 64), 128 + (c % 64)>>

\* str.encode('utf-8')
RECURSIVE encode(_)
encode(s) == IF s = <<>> THEN <<>> ELSE EncodeChar(Head(s)) \o encode(Tail(s))

\* `if kind:`
Truthy(k) == k.some /\ k.v # ""

\* "GIT_" + kind + "_NAME", "GIT_" + kind + "_EMAIL"
NameVar(k) == "GIT_" \o k \o "_NAME"
EmailVar(k) == "GIT_" \o k \o "_EMAIL"

\* os.environ.get(var)
environ_get(var) == env[var]

IsNotNoneTruthy(uc) == uc.some /\ uc.v # <<>>
\* `if user_uc is not None:`
IsNotNone(uc) == uc.some

\* lines 82-83 and 85-86: take the environment value when it is defined
FromEnv(cur, uc) == IF IsNotNone(uc) THEN Some(encode(uc.v)) ELSE cur

CaughtAll(st) == TRUE
\* `except KeyError:`
Caught(st) == st = "KeyError"

NeedDefaultAlways(u, e) == TRUE
NeedDefaultBoth(u, e) == ~u.some /\ ~e.some
\* `if user is None or email is None:`
NeedDefault(u, e) == ~u.some \/ ~e.some

FillDefaultAlways(cur, dflt) == Some(encode(dflt))
\* lines 103-106: a host-default field fills only a field that is still None
FillDefault(cur, dflt) == IF ~cur.some THEN Some(encode(dflt)) ELSE cur

\* bytes.startswith / bytes.endswith
startswith(b, p) == Len(b) >= Len(p) /\ SubSeq(b, 1, Len(p)) = p
endswith(b, p) == Len(b) >= Len(p) /\ SubSeq(b, Len(b) - Len(p) + 1, Len(b)) = p

NormalizeLeading(e) == IF startswith(e, <<LT>>) THEN SubSeq(e, 2, Len(e) - 1) ELSE e
NormalizeNever(e) == e
\* lines 108-109
Normalize(e) ==
    IF startswith(e, <<LT>>) /\ endswith(e, <<GT>>)
    THEN SubSeq(e, 2, Len(e) - 1)
    ELSE e

\* line 111
Serialize(u, e) == u \o <<SP, LT>> \o e \o <<GT>>

UserInitStale == user
\* line 77
UserInit == None
\* line 78
EmailInit == None


-----------------------------------------------------------------------------
(* Collaborators *)

EnvVars == {NameVar("AUTHOR"), EmailVar("AUTHOR"), NameVar("COMMITTER"), EmailVar("COMMITTER")}

\* the keys get_user_identity asks the config for: config.get(("user", ), "name"), ...
ConfigKeys == {<< <<"user">>, "name" >>, << <<"user">>, "email" >>}

\* outcomes of config.get: a value, KeyError (the key is absent), another error
Found(b) == [st |-> "ok", v |-> b]
Missing == [st |-> "KeyError", v |-> <<>>]
Broken(e) == [st |-> e, v |-> <<>>]

\* config.get(section, name)
config_get(section, name) == config[<<section, name>>]

\* outcomes of repo._get_default_identity(): a (name, email) pair of str, or a failure
HostPair(n, e) == [ok |-> TRUE, name |-> n, email |-> e]
HostFails == [ok |-> FALSE, name |-> <<>>, email |-> <<>>]

-----------------------------------------------------------------------------
(* Call and return *)

\* entry of get_user_identity(config, k), called from `from`
GuiEnter(k, from) ==
    /\ kind' = k
    /\ user' = UserInit
    /\ email' = EmailInit
    /\ srcEmail' = <<>>
    /\ hostCalls' = 0
    /\ reads' = {}
    /\ ret' = NoOutcome
    /\ caller' = from
    /\ pc' = "gui_env"

\* get_user_identity goes on with its next statement
Continue(next) ==
    /\ pc' = next
    /\ UNCHANGED <<caller, ret, first, dcVars>>

\* get_user_identity ends with outcome r (a return or a propagating exception);
\* the caller goes on: lines 167 and 170 assign the returned identity
Exit(r) ==
    /\ ret' = r
    /\ UNCHANGED caller
    /\ IF caller = "top"
       THEN /\ pc' = "idle"
            /\ first' = IF first = <<>>
                        THEN <<[k |-> kind, r |-> r, again |-> FALSE]>>
                        ELSE IF first[1].k = kind
                        THEN <<[first[1] EXCEPT !.again = TRUE]>>
                        ELSE first
            /\ UNCHANGED dcVars
       ELSE /\ UNCHANGED first
            /\ IF r.st = "return"
               THEN /\ pc' = IF caller = "dc_committer" THEN "dc_author" ELSE "dc_super"
                    /\ committer' = IF caller = "dc_committer" THEN Some(r.v) ELSE committer
                    /\ author' = IF caller = "dc_author" THEN Some(r.v) ELSE author
                    /\ UNCHANGED <<args, resolvedKinds, superArgs, superRet, dcRet>>
               ELSE /\ pc' = "idle"
                    /\ dcRet' = r
                    /\ UNCHANGED <<args, committer, author, resolvedKinds, superArgs, superRet>>

-----------------------------------------------------------------------------
(* get_user_identity, lines 56-111 *)

\* a caller invokes get_user_identity(config, k)
get_user_identity(k) ==
    /\ pc = "idle"
    /\ GuiEnter(k, "top")
    /\ UNCHANGED <<world, first, dcVars>>

\* lines 80-86
LookupEnv ==
    /\ pc = "gui_env"
    /\ IF Truthy(kind)
       THEN /\ user' = FromEnv(user, environ_get(NameVar(kind.v)))
            /\ email' = FromEnv(email, environ_get(EmailVar(kind.v)))
            /\ reads' = reads \cup {NameVar(kind.v), EmailVar(kind.v)}
       ELSE UNCHANGED <<user, email, reads>>
    /\ Continue("gui_cfg_name")
    /\ UNCHANGED <<world, kind, srcEmail, hostCalls>>

\* lines 88-92
LookupConfigName ==
    /\ pc = "gui_cfg_name"
    /\ IF ~user.some
       THEN LET r == config_get(<<"user">>, "name")
            IN  /\ reads' = reads \cup {"user.name"}
                /\ IF r.st = "ok"
                   THEN user' = Some(r.v) /\ Continue("gui_cfg_email")
                   ELSE IF Caught(r.st)
                   THEN user' = None /\ Continue("gui_cfg_email")
                   ELSE UNCHANGED user /\ Exit(Raise(r.st))
       ELSE UNCHANGED <<user, reads>> /\ Continue("gui_cfg_email")
    /\ UNCHANGED <<world, kind, email, srcEmail, hostCalls>>

\* lines 94-98
LookupConfigEmail ==
    /\ pc = "gui_cfg_email"
    /\ IF ~email.some
       THEN LET r == config_get(<<"user">>, "email")
            IN  /\ reads' = reads \cup {"user.email"}
                /\ IF r.st = "ok"
                   THEN email' = Some(r.v) /\ Continue("gui_default")
                   ELSE IF Caught(r.st)
                   THEN email' = None /\ Continue("gui_default")
                   ELSE UNCHANGED email /\ Exit(Raise(r.st))
       ELSE UNCHANGED <<email, reads>> /\ Continue("gui_default")
    /\ UNCHANGED <<world, kind, user, srcEmail, hostCalls>>

\* lines 100-106
CallHostDefault ==
    /\ pc = "gui_default"
    /\ IF NeedDefault(user, email)
       THEN /\ hostCalls' = hostCalls + 1
            /\ reads' = reads \cup {"host"}
            /\ IF host.ok
               THEN /\ user' = FillDefault(user, host.name)
                    /\ email' = FillDefault(email, host.email)
                    /\ Continue("gui_return")
               ELSE /\ UNCHANGED <<user, email>>
                    /\ Exit(Raise("HostDefaultUnavailable"))
       ELSE UNCHANGED <<user, email, hostCalls, reads>> /\ Continue("gui_return")
    /\ UNCHANGED <<world, kind, srcEmail>>

\* lines 108-111
ReturnIdentity ==
    /\ pc = "gui_return"
    /\ srcEmail' = email.v
    /\ email' = Some(Normalize(email.v))
    /\ Exit(Return(Serialize(user.v, Normalize(email.v))))
    /\ UNCHANGED <<world, kind, user, hostCalls, reads>>

GuiStep ==
    \/ LookupEnv
    \/ LookupConfigName
    \/ LookupConfigEmail
    \/ CallHostDefault
    \/ ReturnIdentity

-----------------------------------------------------------------------------
(* Repo.do_commit, lines 128-184 *)

IsUnspecifiedFalsy(x) == ~x.some \/ x.v = <<>>
\* `if committer is None:`, `if author is None:`
IsUnspecified(x) == ~x.some

\* line 167: kind='COMMITTER'
CommitterKind == SomeKind("COMMITTER")
AuthorKindSwapped == SomeKind("COMMITTER")
\* line 170: kind='AUTHOR'
AuthorKind == SomeKind("AUTHOR")

\* lines 128-141 and 164: do_commit is called with arguments a
do_commit(a) ==
    /\ pc = "idle"
    /\ args' = a
    /\ committer' = a.committer
    /\ author' = a.author
    /\ resolvedKinds' = <<>>
    /\ superArgs' = <<>>
    /\ superRet' = NoOutcome
    /\ dcRet' = NoOutcome
    /\ reads' = {}
    /\ hostCalls' = 0
    /\ ret' = NoOutcome
    /\ pc' = "dc_committer"
    /\ UNCHANGED <<world, caller, kind, user, email, srcEmail, first>>

\* lines 166-167
DefaultCommitter ==
    /\ pc = "dc_committer"
    /\ IF IsUnspecified(committer)
       THEN /\ GuiEnter(CommitterKind, "dc_committer")
            /\ resolvedKinds' = Append(resolvedKinds, CommitterKind.v)
       ELSE /\ pc' = "dc_author"
            /\ UNCHANGED <<caller, kind, user, email, srcEmail, hostCalls, reads, ret, resolvedKinds>>
    /\ UNCHANGED <<world, first, args, committer, author, superArgs, superRet, dcRet>>


\* lines 169-170
DefaultAuthor ==
    /\ pc = "dc_author"
    /\ IF IsUnspecified(author)
       THEN /\ GuiEnter(AuthorKind, "dc_author")
            /\ resolvedKinds' = Append(resolvedKinds, AuthorKind.v)
       ELSE /\ pc' = "dc_super"
            /\ UNCHANGED <<caller, kind, user, email, srcEmail, hostCalls, reads, ret, resolvedKinds>>
    /\ UNCHANGED <<world, first, args, committer, author, superArgs, superRet, dcRet>>

\* what the base class's do_commit may answer: a commit id, or an error of its own
SuperOutcomes == {Return(<<49>>), Return(<<50>>), Raise("CommitError")}

\* lines 172-184: return super().do_commit(message=message, committer=committer, ...)
SuperDoCommit ==
    /\ pc = "dc_super"
    /\ \E out \in SuperOutcomes :
          /\ superArgs' = << [ message          |-> args.message,
                               committer        |-> committer,
                               author           |-> author,
                               commit_timestamp |-> args.commit_timestamp,
                               commit_timezone  |-> args.commit_timezone,
                               author_timestamp |-> args.author_timestamp,
                               author_timezone  |-> args.author_timezone,
                               tree             |-> args.tree,
                               encoding         |-> args.encoding,
                               ref              |-> args.ref,
                               merge_heads      |-> args.merge_heads ] >>
          /\ superRet' = out
          /\ dcRet' = out
    /\ pc' = "idle"
    /\ UNCHANGED <<world, caller, kind, user, email, srcEmail, hostCalls, reads, ret,
                   first, args, committer, author, resolvedKinds>>

-----------------------------------------------------------------------------
(* Inputs *)

\* the environments, configs and host defaults a run starts from; the str values
\* of the environment and of the host default are text that UTF-8 can encode
Worlds(nameA, nameC, emailA, emailC, cfgName, cfgEmail, hosts) ==
    /\ env \in [EnvVars -> nameA \cup nameC \cup emailA \cup emailC]
    /\ env[NameVar("AUTHOR")] \in nameA
    /\ env[NameVar("COMMITTER")] \in nameC
    /\ env[EmailVar("AUTHOR")] \in emailA
    /\ env[EmailVar("COMMITTER")] \in emailC
    /\ config \in [ConfigKeys -> cfgName \cup cfgEmail]
    /\ config[<< <<"user">>, "name" >>] \in cfgName
    /\ config[<< <<"user">>, "email" >>] \in cfgEmail
    /\ host \in hosts

\* the default values of do_commit's parameters, lines 130-140
DefaultArgs ==
    [ message |-> "None", committer |-> None, author |-> None,
      commit_timestamp |-> "None", commit_timezone |-> "None",
      author_timestamp |-> "None", author_timezone |-> "None",
      tree |-> "None", encoding |-> "None", ref |-> "HEAD", merge_heads |-> "None" ]

\* a call that gives every parameter
FullArgs ==
    [ message |-> "msg", committer |-> None, author |-> None,
      commit_timestamp |-> "12", commit_timezone |-> "3600",
      author_timestamp |-> "11", author_timezone |-> "7200",
      tree |-> "tree1", encoding |-> "utf-8", ref |-> "refs/heads/x", merge_heads |-> "m1" ]

\* identities a caller may hand to do_commit: None, b"", b"X <<x>>"
GivenIdentities == {None, Some(<<>>), Some(<<88, SP, LT, LT, 120, GT, GT>>)}

CommitArgs ==
    { [a EXCEPT !.committer = c, !.author = u] :
        a \in {DefaultArgs, FullArgs}, c \in GivenIdentities, u \in GivenIdentities }

Idle ==
    /\ pc = "idle"
    /\ caller = "top"
    /\ kind = NoKind
    /\ user = None
    /\ email = None
    /\ srcEmail = <<>>
    /\ hostCalls = 0
    /\ reads = {}
    /\ ret = NoOutcome
    /\ first = <<>>
    /\ args = DefaultArgs
    /\ committer = None
    /\ author = None
    /\ resolvedKinds = <<>>
    /\ superArgs = <<>>
    /\ superRet = NoOutcome
    /\ dcRet = NoOutcome

\* every source either lacks a field or gives it a value of its own
Init ==
    /\ Worlds({None, Some(<<>>), Some(<<65, 233>>)},
              {None, Some(<<>>), Some(<<67>>)},
              {None, Some(<<>>), Some(<<LT, 97, GT>>)},
              {None, Some(<<>>), Some(<<99>>)},
              {Missing, Broken("ValueError"), Found(<<78>>)},
              {Missing, Broken("OSError"), Found(<<LT, 103, GT>>)},
              {HostFails, HostPair(<<72, 233>>, <<104>>)})
    /\ Idle

\* sample emails: a core inside up to MaxWrap '<' and up to MaxWrap '>'
Emails == { Wrap(k, core, m) : k \in 0..MaxWrap, m \in 0..MaxWrap, core \in {<<>>, <<97, 233>>} }

\* one sample email, which each source either lacks or gives
InitEmail ==
    /\ \E e \in Emails :
          Worlds({None, Some(<<65>>)},
                 {None},
                 {None, Some(e)},
                 {None, Some(e)},
                 {Missing, Found(<<78>>)},
                 {Missing, Broken("OSError"), Found(encode(e))},
                 {HostFails, HostPair(<<72>>, e)})
    /\ Idle

InitCommit ==
    /\ Worlds({None, Some(<<65>>)},
              {None, Some(<<67>>)},
              {None, Some(<<LT, 97, GT>>)},
              {None, Some(<<99>>)},
              {Missing, Found(<<78>>)},
              {Missing, Broken("OSError"), Found(<<103>>)},
              {HostFails, HostPair(<<72>>, <<104>>)})
    /\ Idle

-----------------------------------------------------------------------------
(* Specifications *)

Next ==
    \/ \E k \in Kinds : get_user_identity(k)
    \/ GuiStep

NextCommit ==
    \/ \E a \in CommitArgs : do_commit(a)
    \/ DefaultCommitter
    \/ DefaultAuthor
    \/ SuperDoCommit
    \/ GuiStep

\* calls of get_user_identity, one after the other
Spec == Init /\ [][Next]_vars

\* the same calls, over the sample emails
SpecEmail == InitEmail /\ [][Next]_vars

\* calls of Repo.do_commit, one after the other
SpecCommit == InitCommit /\ [][NextCommit]_vars


-----------------------------------------------------------------------------
(* What the claims speak of *)

\* a top-level get_user_identity call has finished
Finished == pc = "idle" /\ caller = "top" /\ ret.st # "none"
Returned == Finished /\ ret.st = "return"

CfgName == config[<< <<"user">>, "name" >>]
CfgEmail == config[<< <<"user">>, "email" >>]

\* the environment's value for a field under kind k: consulted only for a role
EnvNameOf(k) == IF k.some /\ k.v # "" THEN env[NameVar(k.v)] ELSE None
EnvEmailOf(k) == IF k.some /\ k.v # "" THEN env[EmailVar(k.v)] ELSE None

\* the field has a value in the environment or in the config
NameResolved(k) == EnvNameOf(k).some \/ CfgName.st = "ok"
EmailResolved(k) == EnvEmailOf(k).some \/ CfgEmail.st = "ok"

\* a config lookup that the call performs raises an error other than KeyError
NameLookupBreaks(k) == ~EnvNameOf(k).some /\ CfgName.st \notin {"ok", "KeyError"}
EmailLookupBreaks(k) == ~EnvEmailOf(k).some /\ CfgEmail.st \notin {"ok", "KeyError"}
LookupBreaks(k) == NameLookupBreaks(k) \/ EmailLookupBreaks(k)

\* the value of the highest-precedence source that defines the field
ExpectedName(k) ==
    IF EnvNameOf(k).some THEN encode(EnvNameOf(k).v)
    ELSE IF CfgName.st = "ok" THEN CfgName.v
    ELSE encode(host.name)
ExpectedEmail(k) ==
    IF EnvEmailOf(k).some THEN encode(EnvEmailOf(k).v)
    ELSE IF CfgEmail.st = "ok" THEN CfgEmail.v
    ELSE encode(host.email)

\* begins with '<' and ends with '>'
Bracketed(s) == Len(s) >= 1 /\ s[1] = LT /\ s[Len(s)] = GT
\* begins with '<<' and ends with '>>'
DoubleBracketed(s) ==
    Len(s) >= 4 /\ s[1] = LT /\ s[2] = LT /\ s[Len(s) - 1] = GT /\ s[Len(s)] = GT
\* s without one leading and one trailing character, when it has both brackets
Unbracket(s) == IF Bracketed(s) THEN [i \in 1..(Len(s) - 2) |-> s[i + 1]] ELSE s

\* C1: each field of a returned identity is the value of the highest-precedence
\* source that defines it (environment variable of the role, then config key,
\* then host default), name and email independently; without a role the
\* environment is not consulted.
C1_Precedence ==
    Returned =>
        /\ user.v = ExpectedName(kind)
        /\ srcEmail = ExpectedEmail(kind)
        /\ (~(kind.some /\ kind.v # "") => reads \cap EnvVars = {})
        /\ (kind.some /\ kind.v # "" => reads \cap EnvVars = {NameVar(kind.v), EmailVar(kind.v)})

\* the name comes from the environment, the email from the host default, whose
\* name is discarded
C1_Witness ==
    /\ Returned
    /\ kind = SomeKind("AUTHOR")
    /\ env[NameVar("AUTHOR")].some
    /\ ~env[EmailVar("AUTHOR")].some
    /\ CfgEmail.st = "KeyError"
    /\ "host" \in reads
    /\ user.v # encode(host.name)
    /\ srcEmail = encode(host.email)

\* C2: the returned email is the resolved email without one leading '<' and one
\* trailing '>' when it has both, and the resolved email itself otherwise; the
\* name is the resolved name; the result is name + " <" + email + ">".
C2_NormalizeOnce ==
    Returned =>
        /\ srcEmail = ExpectedEmail(kind)
        /\ (Bracketed(srcEmail) => srcEmail = <<LT>> \o email.v \o <<GT>>)
        /\ (~Bracketed(srcEmail) => email.v = srcEmail)
        /\ user.v = ExpectedName(kind)
        /\ ret.v = user.v \o <<SP, LT>> \o email.v \o <<GT>>

\* the host default's email '<..>' is returned without its brackets
C2_Witness ==
    /\ Returned
    /\ kind = NoKind
    /\ CfgEmail.st = "KeyError"
    /\ "host" \in reads
    /\ Len(srcEmail) >= 3
    /\ Bracketed(srcEmail)
    /\ ~Bracketed(email.v)
    /\ srcEmail = <<LT>> \o email.v \o <<GT>>

\* C3 as stated: the returned identity is name + " <" + email + ">" and its
\* email never begins with '<' and ends with '>', whatever the source email.
C3_NoBracketsLeft ==
    Returned =>
        /\ ret.v = user.v \o <<SP, LT>> \o email.v \o <<GT>>
        /\ ~Bracketed(email.v)

\* C3 amended: the returned identity is name + " <" + email + ">"; its email has
\* no surrounding brackets unless the source email had two layers of them, and
\* then exactly one layer is gone.
C3_OneLayerRemoved ==
    Returned =>
        /\ ret.v = user.v \o <<SP, LT>> \o email.v \o <<GT>>
        /\ (~DoubleBracketed(srcEmail) => ~Bracketed(email.v))
        /\ (DoubleBracketed(srcEmail) =>
                Bracketed(email.v) /\ srcEmail = <<LT>> \o email.v \o <<GT>>)

\* the config's email '<..>' is returned without its brackets
C3_Witness ==
    /\ Returned
    /\ "user.email" \in reads
    /\ CfgEmail.st = "ok"
    /\ Bracketed(srcEmail)
    /\ ~DoubleBracketed(srcEmail)
    /\ Len(email.v) = Len(srcEmail) - 2

\* C4: once the environment has been looked up for a role, a field whose
\* variable is defined as "" is the empty value and stays so: neither the config
\* nor the host default replaces it.
C4_EmptyEnvIsSet ==
    (kind.some /\ kind.v # "" /\ pc # "gui_env") =>
        /\ (env[NameVar(kind.v)] = Some(<<>>) =>
                user = Some(<<>>) /\ "user.name" \notin reads)
        /\ (env[EmailVar(kind.v)] = Some(<<>>) =>
                email = Some(<<>>) /\ "user.email" \notin reads)
        /\ (env[NameVar(kind.v)] = Some(<<>>) /\ env[EmailVar(kind.v)] = Some(<<>>) =>
                "host" \notin reads)

\* GIT_AUTHOR_NAME="" gives the empty name although the config has a name and
\* the host default was asked for the email
C4_Witness ==
    /\ Returned
    /\ kind = SomeKind("AUTHOR")
    /\ env[NameVar("AUTHOR")] = Some(<<>>)
    /\ CfgName.st = "ok"
    /\ "host" \in reads
    /\ user.v = <<>>
    /\ ret.v = <<SP, LT>> \o email.v \o <<GT>>

\* C5: a call invokes the host-default provider at most once; a call that got
\* past the config lookups has invoked it exactly when name or email had no
\* value in environment and config, and a call has not invoked it before.
C5_HostDefaultOnce ==
    /\ hostCalls <= 1
    /\ (pc \in {"gui_env", "gui_cfg_name", "gui_cfg_email", "gui_default"} => hostCalls = 0)
    /\ ((pc = "gui_return" \/ (Finished /\ ~LookupBreaks(kind))) =>
            hostCalls = IF NameResolved(kind) /\ EmailResolved(kind) THEN 0 ELSE 1)
    /\ (Finished /\ LookupBreaks(kind) => hostCalls = 0)

\* the config gives the name, nothing gives the email: one invocation
C5_Witness ==
    /\ Returned
    /\ NameResolved(kind)
    /\ ~EmailResolved(kind)
    /\ hostCalls = 1
    /\ user.v # encode(host.name)

\* C6: a call whose lookups end with name or email without a value fails with
\* the host-default provider's failure when the provider fails; a call whose
\* lookups give both fields returns an identity whether the provider fails or not.
C6_HostDefaultFailure ==
    (Finished /\ ~LookupBreaks(kind)) =>
        IF NameResolved(kind) /\ EmailResolved(kind)
        THEN ret.st = "return"
        ELSE IF host.ok
        THEN ret.st = "return"
        ELSE ret = Raise("HostDefaultUnavailable")

\* only the email is missing, the provider fails, the call fails with its failure
C6_Witness ==
    /\ Finished
    /\ NameResolved(kind)
    /\ ~EmailResolved(kind)
    /\ CfgEmail.st = "KeyError"
    /\ ~host.ok
    /\ ret = Raise("HostDefaultUnavailable")

\* C7: a missing config key alone never makes the call fail (the field falls
\* through to the host default); an error other than KeyError raised by a config
\* lookup ends the call with that very error and no identity.
C7_ConfigErrors ==
    Finished =>
        /\ (NameLookupBreaks(kind) => ret = Raise(CfgName.st))
        /\ (~NameLookupBreaks(kind) /\ EmailLookupBreaks(kind) => ret = Raise(CfgEmail.st))
        /\ (~LookupBreaks(kind) /\ ret.st = "raise" =>
                ~host.ok /\ ret.exc = "HostDefaultUnavailable")
        /\ (~LookupBreaks(kind) /\ host.ok =>
                /\ ret.st = "return"
                /\ (~EnvNameOf(kind).some /\ CfgName.st = "KeyError" => user.v = encode(host.name))
                /\ (~EnvEmailOf(kind).some /\ CfgEmail.st = "KeyError" => srcEmail = encode(host.email)))

\* user.name is missing, which is passed over; the lookup of user.email raises
\* OSError, which ends the call
C7_Witness ==
    /\ Finished
    /\ CfgName.st = "KeyError"
    /\ "user.name" \in reads
    /\ "user.email" \in reads
    /\ ret = Raise("OSError")
    /\ host.ok

\* C9: no step changes the environment, the config or the host default, and a
\* call that finishes gives the outcome the first call of its kind gave.
C9_Idempotent ==
    [][ /\ env' = env
        /\ config' = config
        /\ host' = host
        /\ (pc # "idle" /\ pc' = "idle" /\ first # <<>> /\ first[1].k = kind =>
                ret' = first[1].r) ]_vars

\* a second call of the first call's kind has finished, with a call of another
\* kind that returned another identity in between
C9_Witness ==
    /\ Finished
    /\ first # <<>>
    /\ first[1].again
    /\ first[1].k # kind
    /\ first[1].r.st = "return"
    /\ ret.st = "return"
    /\ ret # first[1].r


\* a do_commit call has reached the base class's do_commit
Committed == pc = "idle" /\ superArgs # <<>>

\* what get_user_identity(config, k) returns when it returns
ExpectedIdentity(k) ==
    ExpectedName(k) \o <<SP, LT>> \o Unbracket(ExpectedEmail(k)) \o <<GT>>

\* the parameters of do_commit other than committer and author
OtherArgs(a) ==
    <<a.message, a.commit_timestamp, a.commit_timezone, a.author_timestamp,
      a.author_timezone, a.tree, a.encoding, a.ref, a.merge_heads>>

\* C8: the base do_commit gets the committer and the author the caller gave or,
\* for one left out, the identity resolved for the role COMMITTER and AUTHOR
\* respectively from that role's own variables; it gets every other argument as
\* given, and do_commit's outcome is the base do_commit's.
C8_CommitDefaults ==
    Committed =>
        LET s == superArgs[1] IN
        /\ s.committer = IF args.committer.some THEN args.committer
                         ELSE Some(ExpectedIdentity(SomeKind("COMMITTER")))
        /\ s.author = IF args.author.some THEN args.author
                      ELSE Some(ExpectedIdentity(SomeKind("AUTHOR")))
        /\ resolvedKinds = (IF args.committer.some THEN <<>> ELSE <<"COMMITTER">>)
                           \o (IF args.author.some THEN <<>> ELSE <<"AUTHOR">>)
        /\ OtherArgs(s) = OtherArgs(args)
        /\ dcRet = superRet
        /\ superRet.st # "none"

\* both left out and resolved, each from its own variables, to different
\* identities; the commit id of the base do_commit is returned
C8_Witness ==
    /\ Committed
    /\ args = FullArgs
    /\ env[NameVar("AUTHOR")].some
    /\ env[NameVar("COMMITTER")].some
    /\ superArgs[1].author = Some(ExpectedIdentity(SomeKind("AUTHOR")))
    /\ superArgs[1].committer = Some(ExpectedIdentity(SomeKind("COMMITTER")))
    /\ superArgs[1].author # superArgs[1].committer
    /\ dcRet.st = "return"

\* C10: a committer or an author the caller gives is never resolved and never
\* altered, and reaches the base do_commit as given; when both are given nothing
\* is consulted, and do_commit fails only if the base do_commit does.
C10_GivenIdentityKept ==
    /\ (args.committer.some =>
            /\ committer = args.committer
            /\ \A i \in 1..Len(resolvedKinds) : resolvedKinds[i] # "COMMITTER"
            /\ (superArgs # <<>> => superArgs[1].committer = args.committer))
    /\ (args.author.some =>
            /\ author = args.author
            /\ \A i \in 1..Len(resolvedKinds) : resolvedKinds[i] # "AUTHOR"
            /\ (superArgs # <<>> => superArgs[1].author = args.author))
    /\ (args.committer.some /\ args.author.some =>
            /\ resolvedKinds = <<>>
            /\ reads = {}
            /\ hostCalls = 0
            /\ (pc = "idle" => superArgs # <<>> /\ dcRet = superRet)
            /\ (pc = "idle" /\ dcRet.st = "raise" => dcRet.exc = "CommitError"))

\* b"" as committer and b"X <<x>>" as author reach the base do_commit as given,
\* and the commit succeeds although the host-default provider fails
C10_Witness ==
    /\ Committed
    /\ args.committer = Some(<<>>)
    /\ args.author = Some(<<88, SP, LT, LT, 120, GT, GT>>)
    /\ superArgs[1].committer = Some(<<>>)
    /\ superArgs[1].author = Some(<<88, SP, LT, LT, 120, GT, GT>>)
    /\ ~host.ok
    /\ CfgEmail.st = "OSError"
    /\ dcRet.st = "return"

====
